---- MODULE Spec2Model ----
(***************************************************************************)
(* A model of the knowledge-graph tutorials:                               *)
(*   - compare_standards.py: the relationship queries (supporting          *)
(*     components, two-phase matching by shared components) and the        *)
(*     overlap metric;                                                     *)
(*   - work_with_state_standards.py: the embedding file written by         *)
(*     generate_embeddings and the cosine top-k ranking of vector_search;  *)
(*   - generate_prereq_practice.py: the prerequisite query over the        *)
(*     candidate pool and the context handed to the language model.        *)
(*                                                                         *)
(* A pandas DataFrame is a sequence of rows (records) in row order.        *)
(* DataFrame.merge(how='inner') keeps the order of the left rows, as its   *)
(* documentation states; boolean-mask selection keeps row order.           *)
(* Identifiers are unique inside the standards store and inside the        *)
(* learning-component store (the data model's invariant); the relationship *)
(* rows are unconstrained: duplicates and dangling endpoints occur.        *)
(***************************************************************************)
EXTENDS Integers, Sequences, FiniteSets, TLC

VARIABLES
    \* ---- compare_standards.py ----
    standards_framework_items_data, \* rows of the filtered standards store
    learning_components_data,       \* rows of the learning-component store
    relationships_data,             \* rows of the relationship store
    pc,                             \* position of main() of compare_standards
    target_standard,                \* result of find_target_standard
    supporting_lcs,                 \* result of extract_supporting_learning_components
    matched_texas_standards,        \* result of find_matched_texas_standards
    results_with_overlap,           \* computed by display_comparison_results
    \* ---- work_with_state_standards.py ----
    framework_items_data,           \* rows of StandardsFrameworkItem.csv
    embed_model,                    \* the embedding model: text -> vector
    embedding_file,                 \* the file at EMBEDDING_FILE_PATH
    generate_flag,                  \* GENERATE_EMBEDDINGS of each run
    run_pc,                         \* position of main() of each run
    embedding_standards,            \* rows selected by embed_standard_data
    results,                        \* the list generate_embeddings builds
    query_embedding,                \* vector_search: the query's vector
    stored_embeddings,              \* vector_search: the records loaded
    top_k,                          \* vector_search: its parameter
    top_results,                    \* vector_search: the ranked results
    printed,                        \* what each run has printed
    raised,                         \* the exception that ended each run
    \* ---- generate_prereq_practice.py ----
    standards_framework_items_csv,  \* rows of StandardsFrameworkItem.csv
    learning_components_csv,        \* rows of LearningComponent.csv
    relationships_csv,              \* rows of Relationships.csv
    relevant_standards,             \* load_data: the candidate pool
    relevant_relationships,         \* load_data: the rows kept
    relevant_learning_components,   \* load_data: the components kept
    prereq_pc,                      \* position of main() of generate_prereq_practice
    standard_and_prereq_data,       \* result of get_standard_and_prerequisites
    prerequisite_learning_components, \* result of get_learning_components_for_prerequisites
    full_standards_context,         \* result of package_context_data
    practice                        \* result of generate_practice

graphVars == <<standards_framework_items_data, learning_components_data,
               relationships_data, pc, target_standard, supporting_lcs,
               matched_texas_standards, results_with_overlap>>

embeddingVars == <<framework_items_data, embed_model, embedding_file, generate_flag,
                   run_pc, embedding_standards, results, query_embedding,
                   stored_embeddings, top_k, top_results, printed, raised>>

prereqVars == <<standards_framework_items_csv, learning_components_csv,
                relationships_csv,
                relevant_standards, relevant_relationships,
                relevant_learning_components, prereq_pc, standard_and_prereq_data,
                prerequisite_learning_components, full_standards_context, practice>>

vars == <<graphVars, embeddingVars, prereqVars>>

-----------------------------------------------------------------------------
(* Bounds of the model *)

\* the relationship store holds at most MaxEdges rows
MaxEdges == 4

\* StandardsFrameworkItem.csv holds at most MaxItems rows
MaxItems == 3

\* vector_search is called with top_k in 0..MaxK
MaxK == 4

\* the relationship files of the query runs hold at most MaxLinks rows
MaxLinks == 4

-----------------------------------------------------------------------------
(* Generic helpers for row sequences *)

Range(s) == {s[i] : i \in DOMAIN s}

RECURSIVE Concat(_)
\* the concatenation of a sequence of sequences
Concat(ss) == IF ss = <<>> THEN <<>> ELSE Head(ss) \o Concat(Tail(ss))

\* a row of empty cells
EmptyRow ==
    [identifier |-> "NaN", caseIdentifierUUID |-> "NaN", statementCode |-> "NaN",
     description |-> "NaN", jurisdiction |-> "NaN", academicSubject |-> "NaN",
     relationshipType |-> "NaN", sourceEntityValue |-> "NaN",
     targetEntityValue |-> "NaN"]

\* the merge with how='left': a left row without a right row of its key
\* stays, with empty cells
MergeLeft(left, right, left_on, right_on) ==
    Concat([i \in 1..Len(left) |->
        LET hits == SelectSeq(right, LAMBDA r : r[right_on] = left[i][left_on])
        IN  IF hits = <<>> THEN <<[left |-> left[i], right |-> EmptyRow]>>
            ELSE [j \in 1..Len(hits) |-> [left |-> left[i], right |-> hits[j]]]])

\* left.merge(right, left_on=.., right_on=.., how='inner'): one output row
\* per pair (left row, right row) of equal key, in the order of the left rows
\* and, for one left row, in the order of the right rows. The output row is
\* given as the pair of the rows it is made of.
Merge(left, right, left_on, right_on) ==
    Concat([i \in 1..Len(left) |->
        LET hits == SelectSeq(right, LAMBDA r : r[right_on] = left[i][left_on])
        IN  [j \in 1..Len(hits) |-> [left |-> left[i], right |-> hits[j]]]])

\* the values of a column with their repetitions
every_value(s) == s

RECURSIVE Unique(_)
\* Series.unique(): the distinct values in order of first appearance
Unique(s) ==
    IF s = <<>> THEN <<>>
    ELSE LET front == Unique(SubSeq(s, 1, Len(s) - 1))
             last  == s[Len(s)]
         IN  IF last \in Range(front) THEN front ELSE Append(front, last)

\* Series.tolist() of one column
Column(rows, field) == [i \in 1..Len(rows) |-> rows[i][field]]

-----------------------------------------------------------------------------
(* compare_standards.py *)

TARGET_STANDARD_CODE == "6.RP.A.2"

NoStandard == [caseIdentifierUUID |-> "none"]

\* find_target_standard: the first row with the target code in Multi-State,
\* or None (NoStandard) when there is none.
find_target_standard(standards) ==
    LET target_standards ==
            SelectSeq(standards, LAMBDA s :
                /\ s.statementCode = TARGET_STANDARD_CODE
                /\ s.jurisdiction = "Multi-State")
    IN  IF Len(target_standards) = 0 THEN NoStandard ELSE target_standards[1]

\* extract_supporting_learning_components without the relationshipType test
extract_any_relationship_type(target, relationships, components) ==
    LET rows == Merge(SelectSeq(relationships, LAMBDA r :
                          r.targetEntityValue = target.caseIdentifierUUID),
                      components, "sourceEntityValue", "identifier")
    IN  [i \in 1..Len(rows) |->
            [identifier  |-> rows[i].left.sourceEntityValue,
             description |-> rows[i].right.description]]

\* extract_supporting_learning_components: the `supports` rows that target the
\* standard, inner-joined with the learning components on the source id.
extract_supporting_learning_components(target, relationships, components) ==
    LET supporting_relationships ==
            SelectSeq(relationships, LAMBDA r :
                /\ r.relationshipType = "supports"
                /\ r.targetEntityValue = target.caseIdentifierUUID)
        supporting_lcs_rows ==
            Merge(supporting_relationships, components, "sourceEntityValue", "identifier")
    IN  [i \in 1..Len(supporting_lcs_rows) |->
            [identifier  |-> supporting_lcs_rows[i].left.sourceEntityValue,
             description |-> supporting_lcs_rows[i].right.description]]

\* step 1 with the join written from the standards' side: the matched ids
\* come out in the order of the standards store, not of the relationship rows
matched_standard_ids_in_store_order(lcs, relationships, standards) ==
    LET lc_ids == Range(Column(lcs, "identifier"))
        hit == SelectSeq(standards, LAMBDA s :
                   /\ s.jurisdiction = "Texas"
                   /\ \E i \in DOMAIN relationships :
                        /\ relationships[i].relationshipType = "supports"
                        /\ relationships[i].sourceEntityValue \in lc_ids
                        /\ relationships[i].targetEntityValue = s.caseIdentifierUUID)
    IN  Column(hit, "caseIdentifierUUID")

\* find_matched_texas_standards, step 1 (lines 299-314): the ids of the Texas
\* standards that are the target of a `supports` row whose source is one of
\* the given components, distinct, in order of first appearance.
matched_standard_ids(lcs, relationships, standards) ==
    LET lc_ids == Range(Column(lcs, "identifier"))
        overlapping_relationships ==
            SelectSeq(relationships, LAMBDA r :
                /\ r.relationshipType = "supports"
                /\ r.sourceEntityValue \in lc_ids)
        texas_standards_with_overlap ==
            Merge(overlapping_relationships,
                  SelectSeq(standards, LAMBDA s : s.jurisdiction = "Texas"),
                  "targetEntityValue", "caseIdentifierUUID")
        caseIdentifierUUID ==
            [i \in 1..Len(texas_standards_with_overlap) |->
                texas_standards_with_overlap[i].right.caseIdentifierUUID]
    IN  Unique(caseIdentifierUUID)

\* find_matched_texas_standards, step 2 (lines 316-358): all the `supports`
\* rows of the matched standards, joined with the Texas standards and with
\* the learning components, then grouped by standard in the order of ids.
expand_matched_standards(ids, relationships, standards, components) ==
    LET all_support_relationships ==
            SelectSeq(relationships, LAMBDA r :
                /\ r.relationshipType = "supports"
                /\ r.targetEntityValue \in Range(ids))
        with_standards ==
            Merge(all_support_relationships,
                  SelectSeq(standards, LAMBDA s : s.jurisdiction = "Texas"),
                  "targetEntityValue", "caseIdentifierUUID")
        results_with_standards ==
            [i \in 1..Len(with_standards) |->
                [sourceEntityValue  |-> with_standards[i].left.sourceEntityValue,
                 caseIdentifierUUID |-> with_standards[i].right.caseIdentifierUUID,
                 statementCode      |-> with_standards[i].right.statementCode,
                 description_std    |-> with_standards[i].right.description]]
        with_components ==
            Merge(results_with_standards, components, "sourceEntityValue", "identifier")
        results_with_components ==
            [i \in 1..Len(with_components) |->
                [caseIdentifierUUID |-> with_components[i].left.caseIdentifierUUID,
                 statementCode      |-> with_components[i].left.statementCode,
                 description_std    |-> with_components[i].left.description_std,
                 identifier         |-> with_components[i].right.identifier,
                 description        |-> with_components[i].right.description]]
        ResultOf(standard_uuid) ==
            LET standard_data ==
                    SelectSeq(results_with_components, LAMBDA r :
                        r.caseIdentifierUUID = standard_uuid)
            IN  IF Len(standard_data) > 0
                THEN <<[caseIdentifierUUID  |-> standard_uuid,
                        statementCode       |-> standard_data[1].statementCode,
                        standardDescription |-> standard_data[1].description_std,
                        lcDescription |-> Column(standard_data, "description"),
                        lcIdentifier  |-> Column(standard_data, "identifier")]>>
                ELSE <<>>
    IN  Concat([i \in 1..Len(ids) |-> ResultOf(ids[i])])

\* the two steps collapsed into one join: step 2 sees only the rows whose
\* source is one of the given components
find_matched_single_join(lcs, relationships, standards, components) ==
    expand_matched_standards(
        matched_standard_ids(lcs, relationships, standards),
        SelectSeq(relationships, LAMBDA r :
            r.sourceEntityValue \in Range(Column(lcs, "identifier"))),
        standards, components)

\* step 2 fed with the relationship rows regrouped by the given components,
\* in the order the components are given
find_matched_in_component_order(lcs, relationships, standards, components) ==
    expand_matched_standards(
        matched_standard_ids(lcs, relationships, standards),
        Concat([i \in 1..Len(lcs) |->
                  SelectSeq(relationships, LAMBDA r :
                      r.sourceEntityValue = lcs[i].identifier)])
          \o SelectSeq(relationships, LAMBDA r :
                 r.sourceEntityValue \notin Range(Column(lcs, "identifier"))),
        standards, components)

\* find_matched_texas_standards: step 1, then step 2 on the whole
\* relationship store.
find_matched_texas_standards(lcs, relationships, standards, components) ==
    expand_matched_standards(matched_standard_ids(lcs, relationships, standards),
                             relationships, standards, components)

\* the overlap with the count clamped to the number of target components
overlap_clamped(supporting_lc_descriptions, std) ==
    LET overlap_count ==
            Len(SelectSeq(std.lcDescription, LAMBDA lc :
                    lc \in Range(supporting_lc_descriptions)))
        total_target_lcs == Len(supporting_lc_descriptions)
        clamped == IF overlap_count > total_target_lcs THEN total_target_lcs
                   ELSE overlap_count
    IN  [caseIdentifierUUID  |-> std.caseIdentifierUUID,
         statementCode       |-> std.statementCode,
         standardDescription |-> std.standardDescription,
         lcDescription       |-> std.lcDescription,
         lcIdentifier        |-> std.lcIdentifier,
         overlapCount        |-> clamped,
         totalTargetLCs      |-> total_target_lcs,
         overlapRatio        |-> ToString(clamped) \o "/" \o ToString(total_target_lcs)]

\* the overlap of one matched standard with the target's components
\* (display_comparison_results, the body of its loop)
overlap(supporting_lc_descriptions, std) ==
    LET overlap_count ==
            Len(SelectSeq(std.lcDescription, LAMBDA lc :
                    lc \in Range(supporting_lc_descriptions)))
        total_target_lcs == Len(supporting_lc_descriptions)
    IN  [caseIdentifierUUID  |-> std.caseIdentifierUUID,
         statementCode       |-> std.statementCode,
         standardDescription |-> std.standardDescription,
         lcDescription       |-> std.lcDescription,
         lcIdentifier        |-> std.lcIdentifier,
         overlapCount        |-> overlap_count,
         totalTargetLCs      |-> total_target_lcs,
         overlapRatio        |-> ToString(overlap_count) \o "/" \o ToString(total_target_lcs)]

\* the overlap metrics with components compared by identifier
display_comparison_by_identifier(lcs, matched) ==
    LET ids == Range(Column(lcs, "identifier"))
        Count(std) == Len(SelectSeq(std.lcIdentifier, LAMBDA id : id \in ids))
    IN  [i \in 1..Len(matched) |->
            [caseIdentifierUUID  |-> matched[i].caseIdentifierUUID,
             statementCode       |-> matched[i].statementCode,
             standardDescription |-> matched[i].standardDescription,
             lcDescription       |-> matched[i].lcDescription,
             lcIdentifier        |-> matched[i].lcIdentifier,
             overlapCount        |-> Count(matched[i]),
             totalTargetLCs      |-> Len(lcs),
             overlapRatio        |-> ToString(Count(matched[i])) \o "/" \o ToString(Len(lcs))]]

\* display_comparison_results: the overlap metrics of every matched standard
display_comparison_results(lcs, matched) ==
    LET supporting_lc_descriptions == Column(lcs, "description")
    IN  [i \in 1..Len(matched) |-> overlap(supporting_lc_descriptions, matched[i])]

-----------------------------------------------------------------------------
(* work_with_state_standards.py: the embedding file and the vector search *)

MIDDLE_SCHOOL_GRADES == {"6", "7", "8"}

\* the runs of main(): run1 alone, or run1 and run2 as two processes on the
\* same data directory
Runs == {"run1", "run2"}

\* the vectors the embedding model produces (dimension 2)
Vectors == {<<0, 0>>, <<1, 0>>, <<2, 0>>, <<1, 1>>, <<0, -1>>}

\* the description texts of the standards
Texts == {"ta", "tb"}

\* a gradeLevel cell: absent (NaN), the JSON array of grade labels, or a
\* text that is no JSON
NoGradeLevel == [kind |-> "nan"]
GradeLevels(levels) == [kind |-> "array", levels |-> levels]
MalformedGradeLevel == [kind |-> "malformed"]

\* has_middle_school_grade (lines 164-171, 215-222 and 269-276, the same
\* code): False for an absent cell; json.loads raises on a text that is no
\* JSON and the bare except returns False
has_middle_school_grade(grade_level_str) ==
    IF grade_level_str.kind = "nan" THEN FALSE
    ELSE IF grade_level_str.kind = "malformed" THEN FALSE
    ELSE \E i \in DOMAIN grade_level_str.levels :
            grade_level_str.levels[i] \in MIDDLE_SCHOOL_GRADES

\* embed_standard_data, lines 278-287: the California mathematics standards
\* of a middle-school grade that have a description, in store order
embed_standard_data(items) ==
    SelectSeq(items, LAMBDA s :
        /\ s.jurisdiction = "California"
        /\ s.academicSubject = "Mathematics"
        /\ s.normalizedStatementType = "Standard"
        /\ has_middle_school_grade(s.gradeLevel)
        /\ s.description # "NaN")

\* generate_embeddings, lines 314-318: the record of one embedded standard
embedding_record(standard, embedding) ==
    [caseIdentifierUUID |-> standard.caseIdentifierUUID,
     statementCode      |-> standard.statementCode,
     embedding          |-> embedding]

\* the numbers the vector components are taken from
Numbers == -2..2

\* json.dump writes a float by its repr: the digits of an integral float and
\* ".0", behind a minus sign when it is negative
number_text(n) == ToString(n) \o ".0"

\* the number read with its sign dropped
json_number_unsigned(text) ==
    CHOOSE n \in 0..2 : text \in {number_text(n), number_text(-n)}

\* json.load reads a number text as the float it denotes
json_number(text) == CHOOSE n \in Numbers : number_text(n) = text

\* the JSON object of one record: strings as they are, the vector as the
\* array of its number texts
encode_record(record) ==
    [f \in DOMAIN record |->
        IF f = "embedding"
        THEN [i \in DOMAIN record[f] |-> number_text(record[f][i])]
        ELSE record[f]]

\* the dict json.load makes of one JSON object
decode_record(object) ==
    [f \in DOMAIN object |->
        IF f = "embedding"
        THEN [i \in DOMAIN object[f] |-> json_number(object[f][i])]
        ELSE object[f]]

\* json.dump(results, f): the text of a JSON array, written piece by piece:
\* the opening bracket, the records, the closing bracket
json_dump(records) ==
    <<[piece |-> "["]>>
        \o [i \in 1..Len(records) |->
                [piece |-> "record", record |-> encode_record(records[i])]]
        \o <<[piece |-> "]"]>>

\* json.load(f): the records of a complete JSON array; a JSONDecodeError on
\* an empty or truncated text
json_load(text) ==
    IF /\ Len(text) >= 2
       /\ text[1].piece = "["
       /\ text[Len(text)].piece = "]"
       /\ \A i \in 2..(Len(text) - 1) : text[i].piece = "record"
    THEN [error |-> "none",
          value |-> [i \in 1..(Len(text) - 2) |-> decode_record(text[i + 1].record)]]
    ELSE [error |-> "JSONDecodeError", value |-> <<>>]

\* lines 364-365: open the file for reading and parse it
read_embedding_file(file) ==
    IF file.exists THEN json_load(file.text)
    ELSE [error |-> "FileNotFoundError", value |-> <<>>]

NoFile == [exists |-> FALSE, text |-> <<>>]

\* the file opened with mode 'a': what it holds stays
open_for_appending == [exists |-> TRUE, text |-> embedding_file.text]

\* open(EMBEDDING_FILE_PATH, 'w') (line 326): the file exists and is empty
open_for_writing == [exists |-> TRUE, text |-> <<>>]

RECURSIVE Dot(_, _)
\* the dot product of two vectors of one dimension
Dot(u, v) == IF u = <<>> THEN 0 ELSE u[1] * v[1] + Dot(Tail(u), Tail(v))

RECURSIVE GCD(_, _)
GCD(a, b) == IF b = 0 THEN a ELSE GCD(b, a % b)

\* cosine_similarity([u], [v])[0][0] = dot(u, v) / (|u| |v|), and 0 when u or
\* v is the zero vector (sklearn normalizes a zero row to itself). The score
\* s is represented exactly by the fraction sign(s) * s^2 = num / den in
\* lowest terms with den > 0, which orders and equates scores as s does;
\* 1.0 is 1/1 and 0.0 is 0/1.
cosine_similarity(u, v) ==
    LET d == Dot(u, v)
        n == Dot(u, u) * Dot(v, v)
    IN  IF n = 0 \/ d = 0 THEN [num |-> 0, den |-> 1]
        ELSE LET g == GCD(d * d, n)
             IN  [num |-> (IF d < 0 THEN -1 ELSE 1) * ((d * d) \div g),
                  den |-> n \div g]

\* lines 373-378: the exception the loop over the loaded records ends with,
\* that of the first record raising one: a KeyError for a record without
\* 'embedding' or 'caseIdentifierUUID', the ValueError of cosine_similarity
\* for a vector of another dimension than the query's
similarity_error(query, stored) ==
    LET raising == {i \in DOMAIN stored :
                       \/ "embedding" \notin DOMAIN stored[i]
                       \/ Len(stored[i].embedding) # Len(query)
                       \/ "caseIdentifierUUID" \notin DOMAIN stored[i]}
    IN  IF raising = {} THEN "none"
        ELSE LET i == CHOOSE i \in raising : \A j \in raising : i <= j
             IN  IF "embedding" \notin DOMAIN stored[i] THEN "KeyError"
                 ELSE IF Len(stored[i].embedding) # Len(query) THEN "ValueError"
                 ELSE "KeyError"

\* a < b on scores
ScoreLess(a, b) == a.num * b.den < b.num * a.den

\* vector_search, lines 372-378
similarities_of(query, stored) ==
    [i \in 1..Len(stored) |->
        [caseIdentifierUUID |-> stored[i].caseIdentifierUUID,
         score |-> cosine_similarity(query, stored[i].embedding)]]

\* one step of an unstable sort: x goes in front of the elements of its score
insert_before_equal_scores(sorted_rows, x) ==
    LET behind == {i \in DOMAIN sorted_rows : ScoreLess(x.score, sorted_rows[i].score)}
        k == IF behind = {} THEN 0 ELSE CHOOSE i \in behind : \A j \in behind : j <= i
    IN  SubSeq(sorted_rows, 1, k) \o <<x>> \o SubSeq(sorted_rows, k + 1, Len(sorted_rows))

\* one step of the stable sort: x goes behind every element whose score is
\* not below its own
insert_by_score(sorted_rows, x) ==
    LET behind == {i \in DOMAIN sorted_rows : ~ScoreLess(sorted_rows[i].score, x.score)}
        k == IF behind = {} THEN 0 ELSE CHOOSE i \in behind : \A j \in behind : j <= i
    IN  SubSeq(sorted_rows, 1, k) \o <<x>> \o SubSeq(sorted_rows, k + 1, Len(sorted_rows))

RECURSIVE sorted_by_score(_)
\* sorted(similarities, key=lambda x: x['score'], reverse=True) (line 380):
\* descending by score, rows of equal score in their original order
sorted_by_score(rows) ==
    IF rows = <<>> THEN <<>>
    ELSE insert_by_score(sorted_by_score(SubSeq(rows, 1, Len(rows) - 1)), rows[Len(rows)])

\* the slice taken one element too long
first_k_and_one(rows, k) == SubSeq(rows, 1, IF k + 1 < Len(rows) THEN k + 1 ELSE Len(rows))

\* the slice [:top_k] (line 380), for top_k >= 0
first_k(rows, k) == SubSeq(rows, 1, IF k < Len(rows) THEN k ELSE Len(rows))

\* find_framework_item (lines 59-66) and lines 385-392: the code and the
\* description of the result's standard, or placeholders
with_details(result, items) ==
    LET matching_items == SelectSeq(items, LAMBDA s :
                              s.caseIdentifierUUID = result.caseIdentifierUUID)
        found == Len(matching_items) > 0
    IN  [caseIdentifierUUID |-> result.caseIdentifierUUID,
         score |-> result.score,
         statementCode |-> IF found /\ matching_items[1].statementCode # "NaN"
                           THEN matching_items[1].statementCode ELSE "(no code)",
         description |-> IF found /\ matching_items[1].description # "NaN"
                         THEN matching_items[1].description ELSE "(no statement)"]

\* vector_search, lines 371-392: the top_k most similar stored records
rank(query, stored, k, items) ==
    LET top == first_k(sorted_by_score(similarities_of(query, stored)), k)
    IN  [i \in 1..Len(top) |-> with_details(top[i], items)]

-----------------------------------------------------------------------------
(* The data the work_with_state_standards runs are started on *)

Item(id, jurisdiction, subject, type, grades, description) ==
    [caseIdentifierUUID |-> id, statementCode |-> "code " \o id,
     jurisdiction |-> jurisdiction, academicSubject |-> subject,
     normalizedStatementType |-> type, gradeLevel |-> grades,
     description |-> description]

\* the rows a standards file is made of: four that embed_standard_data
\* selects (two of them with the same text), one row failing each test of
\* the selection, and one whose gradeLevel is no JSON
ItemCatalogue ==
    <<Item("E1", "California", "Mathematics", "Standard", GradeLevels(<<"6">>), "ta"),
      Item("N1", "Texas", "Mathematics", "Standard", GradeLevels(<<"6">>), "ta"),
      Item("E2", "California", "Mathematics", "Standard", GradeLevels(<<"7", "8">>), "tb"),
      Item("N2", "California", "Mathematics", "Standard Grouping", GradeLevels(<<"7">>), "tb"),
      Item("N3", "California", "Mathematics", "Standard", GradeLevels(<<"5">>), "ta"),
      Item("E3", "California", "Mathematics", "Standard", GradeLevels(<<"5", "6">>), "ta"),
      Item("N4", "California", "Mathematics", "Standard", GradeLevels(<<"8">>), "NaN"),
      Item("N5", "California", "Mathematics", "Standard", NoGradeLevel, "tb"),
      Item("E4", "California", "Mathematics", "Standard", GradeLevels(<<"8">>), "tb"),
      Item("M1", "California", "Mathematics", "Standard", MalformedGradeLevel, "ta")>>

\* the rows of the catalogue at the positions in P, in catalogue order
RECURSIVE Pick(_, _)
Pick(rows, P) ==
    IF rows = <<>> THEN <<>>
    ELSE LET front == Pick(SubSeq(rows, 1, Len(rows) - 1), P)
         IN  IF Len(rows) \in P THEN Append(front, rows[Len(rows)]) ELSE front

ItemStores ==
    {Pick(ItemCatalogue, P) :
        P \in {Q \in SUBSET DOMAIN ItemCatalogue : Cardinality(Q) <= MaxItems}}

\* the file a previous generation run has left: one record, of a standard
\* that is no longer in the standards file
OldRecords == <<[caseIdentifierUUID |-> "E0", statementCode |-> "code E0",
                 embedding |-> <<1, 0>>]>>

OldFile == [exists |-> TRUE, text |-> json_dump(OldRecords)]

\* a file written with another embedding model, of dimension 3
OtherModelFile ==
    [exists |-> TRUE,
     text |-> json_dump(<<[caseIdentifierUUID |-> "E0", statementCode |-> "code E0",
                           embedding |-> <<1, 0, 0>>]>>)]

\* a file whose records have vectors of two dimensions
MixedFile ==
    [exists |-> TRUE,
     text |-> json_dump(<<[caseIdentifierUUID |-> "E0", statementCode |-> "code E0",
                           embedding |-> <<1, 0>>],
                          [caseIdentifierUUID |-> "E9", statementCode |-> "code E9",
                           embedding |-> <<1, 0, 0>>]>>)]

\* a file whose record has no 'embedding'
NoFieldFile ==
    [exists |-> TRUE,
     text |-> json_dump(<<[caseIdentifierUUID |-> "E0", statementCode |-> "code E0"]>>)]

\* the file a run has left that was stopped while it wrote
TruncatedFile ==
    [exists |-> TRUE, text |-> SubSeq(json_dump(OldRecords), 1, 2)]

\* what a data directory holds at EMBEDDING_FILE_PATH when a run starts
StoredFiles ==
    {NoFile, OldFile, OtherModelFile, MixedFile, NoFieldFile, TruncatedFile}

\* no run of work_with_state_standards takes part
EmbeddingIdle ==
    /\ framework_items_data = <<>>
    /\ embed_model = [x \in Texts |-> <<0, 0>>]
    /\ embedding_file = NoFile
    /\ generate_flag = [p \in Runs |-> FALSE]
    /\ run_pc = [p \in Runs |-> "off"]
    /\ embedding_standards = [p \in Runs |-> <<>>]
    /\ results = [p \in Runs |-> <<>>]
    /\ query_embedding = [p \in Runs |-> <<>>]
    /\ stored_embeddings = [p \in Runs |-> <<>>]
    /\ top_k = [p \in Runs |-> 0]
    /\ top_results = [p \in Runs |-> <<>>]
    /\ printed = [p \in Runs |-> <<>>]
    /\ raised = [p \in Runs |-> "none"]

\* no run of compare_standards takes part
GraphIdle ==
    /\ standards_framework_items_data = <<>>
    /\ learning_components_data = <<>>
    /\ relationships_data = <<>>
    /\ pc = "off"
    /\ target_standard = NoStandard
    /\ supporting_lcs = <<>>
    /\ matched_texas_standards = <<>>
    /\ results_with_overlap = <<>>

\* get_standard_and_prerequisites has not returned a dict
NoPrerequisiteData ==
    [found |-> FALSE, target_standard |-> NoStandard, prerequisite_standards |-> <<>>]

NoContext == [targetStandard |-> NoStandard, prereqStandards |-> <<>>]

NoPractice == [aiGenerated |-> "none"]

\* what a run of generate_prereq_practice starts with
PrereqStart ==
    /\ relevant_standards = <<>>
    /\ relevant_relationships = <<>>
    /\ relevant_learning_components = <<>>
    /\ standard_and_prereq_data = NoPrerequisiteData
    /\ prerequisite_learning_components = <<>>
    /\ full_standards_context = NoContext
    /\ practice = NoPractice

\* no run of generate_prereq_practice takes part
PrereqIdle ==
    /\ standards_framework_items_csv = <<>>
    /\ learning_components_csv = <<>>
    /\ relationships_csv = <<>>
    /\ prereq_pc = "off"
    /\ PrereqStart

RunStart ==
    /\ embedding_standards = [p \in Runs |-> <<>>]
    /\ results = [p \in Runs |-> <<>>]
    /\ query_embedding = [p \in Runs |-> <<>>]
    /\ stored_embeddings = [p \in Runs |-> <<>>]
    /\ top_k = [p \in Runs |-> 0]
    /\ top_results = [p \in Runs |-> <<>>]
    /\ printed = [p \in Runs |-> <<>>]
    /\ raised = [p \in Runs |-> "none"]

\* one run of main(), with embedding generation enabled (GENERATE_EMBEDDINGS,
\* line 23) or disabled, on a data directory with or without an embedding file
InitEmbedding ==
    /\ GraphIdle
    /\ PrereqIdle
    /\ framework_items_data \in ItemStores
    /\ embed_model \in [Texts -> Vectors]
    /\ embedding_file \in StoredFiles
    /\ generate_flag \in {[p \in Runs |-> p = "run1" /\ g] : g \in BOOLEAN}
    /\ run_pc = [p \in Runs |-> IF p = "run1" THEN "step3" ELSE "off"]
    /\ RunStart

-----------------------------------------------------------------------------
(* main() of work_with_state_standards.py, one action per step of a run *)

embeddingInputs == <<framework_items_data, embed_model, generate_flag>>

\* main, lines 421-426: select the standards to embed; enter
\* generate_embeddings (results = [], line 293) unless it is disabled
EmbedStandardData(p) ==
    /\ run_pc[p] = "step3"
    /\ embedding_standards' =
          [embedding_standards EXCEPT ![p] = embed_standard_data(framework_items_data)]
    /\ results' = [results EXCEPT ![p] = <<>>]
    /\ run_pc' = [run_pc EXCEPT ![p] = IF generate_flag[p] THEN "embedding" ELSE "step4"]
    /\ printed' = [printed EXCEPT ![p] =
          @ \o <<"Step 3",
                 IF generate_flag[p] THEN "Generating embeddings"
                 ELSE "Embedding generation disabled">>]
    /\ UNCHANGED <<embeddingInputs, embedding_file, query_embedding,
                   stored_embeddings, top_k, top_results, raised>>
    /\ UNCHANGED <<graphVars, prereqVars>>

\* the records computed so far are written to the file when a standard fails
EmbedNextStandardAndSave(p) ==
    /\ run_pc[p] = "embedding"
    /\ Len(results[p]) < Len(embedding_standards[p])
    /\ LET standard == embedding_standards[p][Len(results[p]) + 1]
       IN  \E model_raises \in BOOLEAN :
              IF model_raises
              THEN /\ printed' = [printed EXCEPT ![p] =
                          Append(@, "failed " \o standard.statementCode)]
                   /\ raised' = [raised EXCEPT ![p] = "Exception"]
                   /\ run_pc' = [run_pc EXCEPT ![p] = "raised"]
                   /\ embedding_file' = [exists |-> TRUE, text |-> json_dump(results[p])]
                   /\ UNCHANGED results
              ELSE /\ results' = [results EXCEPT ![p] =
                          Append(@, embedding_record(standard,
                                                     embed_model[standard.description]))]
                   /\ printed' = [printed EXCEPT ![p] =
                          Append(@, "ok " \o standard.statementCode)]
                   /\ UNCHANGED <<raised, run_pc, embedding_file>>
    /\ UNCHANGED <<embeddingInputs, embedding_standards,
                   query_embedding, stored_embeddings, top_k, top_results>>
    /\ UNCHANGED <<graphVars, prereqVars>>

\* generate_embeddings, lines 303-323: embed the next standard and append
\* its record; when the tokenizer or the model raises, print the error and
\* raise it again: it leaves generate_embeddings and main, and results is
\* left as it was
EmbedNextStandard(p) ==
    /\ run_pc[p] = "embedding"
    /\ Len(results[p]) < Len(embedding_standards[p])
    /\ LET standard == embedding_standards[p][Len(results[p]) + 1]
       IN  \E model_raises \in BOOLEAN :
              IF model_raises
              THEN /\ printed' = [printed EXCEPT ![p] =
                          Append(@, "failed " \o standard.statementCode)]
                   /\ raised' = [raised EXCEPT ![p] = "Exception"]
                   /\ run_pc' = [run_pc EXCEPT ![p] = "raised"]
                   /\ UNCHANGED results
              ELSE /\ results' = [results EXCEPT ![p] =
                          Append(@, embedding_record(standard,
                                                     embed_model[standard.description]))]
                   /\ printed' = [printed EXCEPT ![p] =
                          Append(@, "ok " \o standard.statementCode)]
                   /\ UNCHANGED <<raised, run_pc>>
    /\ UNCHANGED <<embeddingInputs, embedding_file, embedding_standards,
                   query_embedding, stored_embeddings, top_k, top_results>>
    /\ UNCHANGED <<graphVars, prereqVars>>

\* generate_embeddings, line 326: after the loop, open the file for writing
OpenEmbeddingFile(p) ==
    /\ run_pc[p] = "embedding"
    /\ Len(results[p]) = Len(embedding_standards[p])
    /\ embedding_file' = open_for_writing
    /\ run_pc' = [run_pc EXCEPT ![p] = "dumping"]
    /\ UNCHANGED <<embeddingInputs, embedding_standards, results, query_embedding,
                   stored_embeddings, top_k, top_results, printed, raised>>
    /\ UNCHANGED <<graphVars, prereqVars>>

\* the write is left, and the search started, behind any piece of the text
DumpSomePieces(p) ==
    /\ run_pc[p] = "dumping"
    /\ LET text == json_dump(results[p])
           n == Len(embedding_file.text) + 1
       IN  /\ n <= Len(text)
           /\ embedding_file' = [embedding_file EXCEPT !.text = Append(@, text[n])]
           /\ \E next_pc \in {"step4", "dumping"} :
                 /\ n = Len(text) => next_pc = "step4"
                 /\ run_pc' = [run_pc EXCEPT ![p] = next_pc]
           /\ printed' = [printed EXCEPT ![p] =
                  IF n = Len(text) THEN Append(@, "Saved embeddings") ELSE @]
    /\ UNCHANGED <<embeddingInputs, embedding_standards, results, query_embedding,
                   stored_embeddings, top_k, top_results, raised>>
    /\ UNCHANGED <<graphVars, prereqVars>>

\* generate_embeddings, lines 327-328: the next piece of the JSON text
\* reaches the file; the file is closed behind the last one
DumpNextPiece(p) ==
    /\ run_pc[p] = "dumping"
    /\ LET text == json_dump(results[p])
           n == Len(embedding_file.text) + 1
       IN  /\ n <= Len(text)
           /\ embedding_file' = [embedding_file EXCEPT !.text = Append(@, text[n])]
           /\ run_pc' = [run_pc EXCEPT ![p] = IF n = Len(text) THEN "step4" ELSE "dumping"]
           /\ printed' = [printed EXCEPT ![p] =
                  IF n = Len(text) THEN Append(@, "Saved embeddings") ELSE @]
    /\ UNCHANGED <<embeddingInputs, embedding_standards, results, query_embedding,
                   stored_embeddings, top_k, top_results, raised>>
    /\ UNCHANGED <<graphVars, prereqVars>>

\* main, line 428, and vector_search, lines 352-360: embed the query; when
\* the tokenizer or the model raises, print the error and return
EmbedQuery(p) ==
    /\ run_pc[p] = "step4"
    /\ \E model_raises \in BOOLEAN :
          IF model_raises
          THEN /\ printed' = [printed EXCEPT ![p] =
                      @ \o <<"Step 4", "Error generating embedding for query">>]
               /\ run_pc' = [run_pc EXCEPT ![p] = "query_error"]
               /\ UNCHANGED query_embedding
          ELSE /\ \E v \in Vectors :
                      query_embedding' = [query_embedding EXCEPT ![p] = v]
               /\ printed' = [printed EXCEPT ![p] = Append(@, "Step 4")]
               /\ run_pc' = [run_pc EXCEPT ![p] = "loading"]
    /\ UNCHANGED <<embeddingInputs, embedding_file, embedding_standards, results,
                   stored_embeddings, top_k, top_results, raised>>
    /\ UNCHANGED <<graphVars, prereqVars>>

\* vector_search, lines 362-369: read the embedding file; when it is missing
\* or is no JSON text, print the error and return
LoadStoredEmbeddings(p) ==
    /\ run_pc[p] = "loading"
    /\ LET loaded == read_embedding_file(embedding_file)
       IN  IF loaded.error # "none"
           THEN /\ run_pc' = [run_pc EXCEPT ![p] = "load_error"]
                /\ printed' = [printed EXCEPT ![p] =
                       @ \o <<"Error loading embeddings: " \o loaded.error,
                              "Make sure to run the embedding generation step first">>]
                /\ UNCHANGED stored_embeddings
           ELSE /\ run_pc' = [run_pc EXCEPT ![p] = "ranking"]
                /\ stored_embeddings' = [stored_embeddings EXCEPT ![p] = loaded.value]
                /\ UNCHANGED printed
    /\ UNCHANGED <<embeddingInputs, embedding_file, embedding_standards, results,
                   query_embedding, top_k, top_results, raised>>
    /\ UNCHANGED <<graphVars, prereqVars>>

\* vector_search, lines 371-398: rank the stored records, keep top_k and
\* print them; the exception a record raises in the loop of lines 373-378
\* leaves vector_search and main
RankStoredEmbeddings(p) ==
    /\ run_pc[p] = "ranking"
    /\ LET error == similarity_error(query_embedding[p], stored_embeddings[p])
       IN  IF error # "none"
           THEN /\ raised' = [raised EXCEPT ![p] = error]
                /\ run_pc' = [run_pc EXCEPT ![p] = "raised"]
                /\ UNCHANGED <<top_k, top_results, printed>>
           ELSE /\ \E k \in 0..MaxK :
                      /\ top_k' = [top_k EXCEPT ![p] = k]
                      /\ top_results' = [top_results EXCEPT ![p] =
                            rank(query_embedding[p], stored_embeddings[p], k,
                                 framework_items_data)]
                /\ printed' = [printed EXCEPT ![p] = Append(@, "Top results")]
                /\ run_pc' = [run_pc EXCEPT ![p] = "done"]
                /\ UNCHANGED raised
    /\ UNCHANGED <<embeddingInputs, embedding_file, embedding_standards, results,
                   query_embedding, stored_embeddings>>
    /\ UNCHANGED <<graphVars, prereqVars>>

NextEmbedding ==
    \E p \in Runs :
        \/ EmbedStandardData(p)
        \/ EmbedNextStandard(p)
        \/ OpenEmbeddingFile(p)
        \/ DumpNextPiece(p)
        \/ EmbedQuery(p)
        \/ LoadStoredEmbeddings(p)
        \/ RankStoredEmbeddings(p)

SpecEmbedding == InitEmbedding /\ [][NextEmbedding]_vars

\* two runs of main() as two processes on one data directory that holds the
\* file of a previous run: run1 generates the embeddings and searches, run2
\* has the generation disabled and only searches
ConcurrentStores ==
    {s \in ItemStores : \A i \in DOMAIN s : s[i].description = "ta"}

InitConcurrent ==
    /\ GraphIdle
    /\ PrereqIdle
    /\ framework_items_data \in ConcurrentStores
    /\ embed_model \in [Texts -> {<<1, 0>>, <<1, 1>>}]
    /\ embedding_file = OldFile
    /\ generate_flag = [p \in Runs |-> p = "run1"]
    /\ run_pc = [p \in Runs |-> "step3"]
    /\ RunStart

SpecConcurrent == InitConcurrent /\ [][NextEmbedding]_vars

\* the positions at which main() has ended, by a return or by an exception
Ended == {"done", "load_error", "query_error", "raised"}

\* the script is started again on the same data directory once the runs
\* before it have ended (lines 433-434)
StartRun(p) ==
    /\ run_pc[p] = "off"
    /\ \A q \in Runs \ {p} : run_pc[q] \in Ended
    /\ run_pc' = [run_pc EXCEPT ![p] = "step3"]
    /\ UNCHANGED <<embeddingInputs, embedding_file, embedding_standards, results,
                   query_embedding, stored_embeddings, top_k, top_results,
                   printed, raised>>
    /\ UNCHANGED <<graphVars, prereqVars>>

\* runs of main() one after the other on one data directory, with the
\* embedding generation enabled: run1, and run2 once run1 has ended
InitRepeated ==
    /\ GraphIdle
    /\ PrereqIdle
    /\ framework_items_data \in ItemStores
    /\ embed_model \in {m \in [Texts -> {<<1, 0>>, <<0, -1>>}] : m["ta"] # m["tb"]}
    /\ embedding_file \in StoredFiles
    /\ generate_flag = [p \in Runs |-> TRUE]
    /\ run_pc = [p \in Runs |-> IF p = "run1" THEN "step3" ELSE "off"]
    /\ RunStart

NextRepeated ==
    \/ NextEmbedding
    \/ \E p \in Runs : StartRun(p)

SpecRepeated == InitRepeated /\ [][NextRepeated]_vars

-----------------------------------------------------------------------------
(* The stores the compare_standards run is started on *)

Standard(id, code, jurisdiction) ==
    [caseIdentifierUUID |-> id, statementCode |-> code,
     jurisdiction |-> jurisdiction, description |-> "about " \o code]

Component(id, description) == [identifier |-> id, description |-> description]

Edge(type, source, target) ==
    [relationshipType |-> type, sourceEntityValue |-> source,
     targetEntityValue |-> target]

\* S1 is the Multi-State standard, with or without the target code;
\* T1 and T2 are Texas standards.
StandardStores ==
    {<<Standard("S1", code, "Multi-State"), Standard("T1", "T.1", "Texas"),
       Standard("T2", "T.2", "Texas")>> : code \in {TARGET_STANDARD_CODE, "6.RP.A.3"}}

\* C1 and C2 are stored components, with equal or different descriptions;
\* C3 is in no store (an edge from it dangles).
ComponentStores ==
    {<<Component("C1", "d1"), Component("C2", d)>> : d \in {"d1", "d2"}}

\* the rows a relationship store is made of: the `supports` rows of the stored
\* components, one of the component that is in no store, and two rows of
\* another type
EdgeRows ==
    {Edge("supports", c, s) : c \in {"C1", "C2"}, s \in {"S1", "T1", "T2"}}
        \cup {Edge("supports", "C3", "T1"),
              Edge("buildsTowards", "C1", "S1"), Edge("buildsTowards", "C2", "T1")}

RECURSIVE SeqsUpTo(_, _)
\* the sequences over S of length at most n
SeqsUpTo(S, n) ==
    IF n = 0 THEN {<<>>}
    ELSE LET shorter == SeqsUpTo(S, n - 1)
         IN  shorter \cup {Append(s, x) : s \in {t \in shorter : Len(t) = n - 1}, x \in S}

GraphStart ==
    /\ pc = "start"
    /\ target_standard = NoStandard
    /\ supporting_lcs = <<>>
    /\ matched_texas_standards = <<>>
    /\ results_with_overlap = <<>>

Init ==
    /\ standards_framework_items_data \in StandardStores
    /\ learning_components_data \in ComponentStores
    /\ relationships_data \in SeqsUpTo(EdgeRows, MaxEdges)
    /\ GraphStart
    /\ EmbeddingIdle
    /\ PrereqIdle

-----------------------------------------------------------------------------
(* main() of compare_standards.py, one action per step *)

stores == <<standards_framework_items_data, learning_components_data, relationships_data>>

\* main without the test of line 441: the run goes on without a target
FindTargetStandardAndGoOn ==
    /\ pc = "start"
    /\ target_standard' = find_target_standard(standards_framework_items_data)
    /\ pc' = "found"
    /\ UNCHANGED <<stores, supporting_lcs, matched_texas_standards, results_with_overlap>>
    /\ UNCHANGED <<embeddingVars, prereqVars>>

\* main, line 440: find the target standard; stop when it is not found
FindTargetStandard ==
    /\ pc = "start"
    /\ target_standard' = find_target_standard(standards_framework_items_data)
    /\ pc' = IF target_standard' = NoStandard THEN "not_found" ELSE "found"
    /\ UNCHANGED <<stores, supporting_lcs, matched_texas_standards, results_with_overlap>>
    /\ UNCHANGED <<embeddingVars, prereqVars>>

\* main, line 445
ExtractSupporting ==
    /\ pc = "found"
    /\ supporting_lcs' = extract_supporting_learning_components(
                             target_standard, relationships_data, learning_components_data)
    /\ pc' = "extracted"
    /\ UNCHANGED <<stores, target_standard, matched_texas_standards, results_with_overlap>>
    /\ UNCHANGED <<embeddingVars, prereqVars>>

\* main, line 450
FindMatched ==
    /\ pc = "extracted"
    /\ matched_texas_standards' = find_matched_texas_standards(
                                      supporting_lcs, relationships_data,
                                      standards_framework_items_data, learning_components_data)
    /\ pc' = "matched"
    /\ UNCHANGED <<stores, target_standard, supporting_lcs, results_with_overlap>>
    /\ UNCHANGED <<embeddingVars, prereqVars>>

\* main, line 452
DisplayComparison ==
    /\ pc = "matched"
    /\ results_with_overlap' = display_comparison_results(supporting_lcs, matched_texas_standards)
    /\ pc' = "done"
    /\ UNCHANGED <<stores, target_standard, supporting_lcs, matched_texas_standards>>
    /\ UNCHANGED <<embeddingVars, prereqVars>>

Next ==
    \/ FindTargetStandard
    \/ ExtractSupporting
    \/ FindMatched
    \/ DisplayComparison

Spec == Init /\ [][Next]_vars

-----------------------------------------------------------------------------
(* generate_prereq_practice.py *)

JURISDICTION == "Multi-State"
ACADEMIC_SUBJECT == "Mathematics"
TARGET_CODE == "6.NS.B.4"
GENERATE_PRACTICE == TRUE

\* load_data, lines 77-81: the candidate pool
relevant_standards_of(items) ==
    SelectSeq(items, LAMBDA s :
        /\ s.jurisdiction = JURISDICTION
        /\ s.academicSubject = ACADEMIC_SUBJECT)

\* load_data, lines 84-93: the `buildsTowards` rows between two standards of
\* the pool and the `supports` rows into a standard of the pool
relevant_relationships_of(rows, pool) ==
    LET relevant_standard_ids == {pool[i].caseIdentifierUUID : i \in DOMAIN pool}
    IN  SelectSeq(rows, LAMBDA r :
            \/ /\ r.relationshipType = "buildsTowards"
               /\ r.sourceEntityValue \in relevant_standard_ids
               /\ r.targetEntityValue \in relevant_standard_ids
            \/ /\ r.relationshipType = "supports"
               /\ r.targetEntityValue \in relevant_standard_ids)

\* load_data, lines 96-104: the components a kept `supports` row starts from
relevant_learning_components_of(components, kept_rows) ==
    LET linked_learning_component_ids ==
            {kept_rows[i].sourceEntityValue :
                i \in {j \in DOMAIN kept_rows : kept_rows[j].relationshipType = "supports"}}
    IN  SelectSeq(components, LAMBDA c : c.identifier \in linked_learning_component_ids)

\* get_standard_and_prerequisites without the relationshipType test
prerequisites_of_any_type(pool, kept_rows) ==
    LET target_standard_df == SelectSeq(pool, LAMBDA s : s.statementCode = TARGET_CODE)
    IN  IF Len(target_standard_df) = 0 THEN NoPrerequisiteData
        ELSE LET prerequisite_links ==
                     SelectSeq(kept_rows, LAMBDA r :
                         r.targetEntityValue = target_standard_df[1].caseIdentifierUUID)
                 joined == Merge(prerequisite_links, pool,
                                 "sourceEntityValue", "caseIdentifierUUID")
             IN  [found |-> TRUE,
                  target_standard |-> target_standard_df[1],
                  prerequisite_standards |->
                      [i \in 1..Len(joined) |->
                          [caseIdentifierUUID |-> joined[i].left.sourceEntityValue,
                           statementCode |-> joined[i].right.statementCode,
                           standardDescription |-> joined[i].right.description]]]

\* get_standard_and_prerequisites, lines 125-158: None (NoPrerequisiteData)
\* when no standard of the pool has the target code; else the first such
\* standard and the `buildsTowards` rows into it, inner-joined with the pool
\* on the source id
get_standard_and_prerequisites(pool, kept_rows) ==
    LET target_standard_df == SelectSeq(pool, LAMBDA s : s.statementCode = TARGET_CODE)
    IN  IF Len(target_standard_df) = 0 THEN NoPrerequisiteData
        ELSE LET prerequisite_links ==
                     SelectSeq(kept_rows, LAMBDA r :
                         /\ r.relationshipType = "buildsTowards"
                         /\ r.targetEntityValue = target_standard_df[1].caseIdentifierUUID)
                 joined == Merge(prerequisite_links, pool,
                                 "sourceEntityValue", "caseIdentifierUUID")
             IN  [found |-> TRUE,
                  target_standard |-> target_standard_df[1],
                  prerequisite_standards |->
                      [i \in 1..Len(joined) |->
                          [caseIdentifierUUID |-> joined[i].left.sourceEntityValue,
                           statementCode |-> joined[i].right.statementCode,
                           standardDescription |-> joined[i].right.description]]]

\* get_learning_components_for_prerequisites, lines 162-183: the rows of the
\* relationship store into a prerequisite, of them the `supports` rows,
\* inner-joined with the components on the source id
get_learning_components_for_prerequisites(prerequisites, kept_rows, components) ==
    LET into_prerequisites ==
            Merge(prerequisites, kept_rows, "caseIdentifierUUID", "targetEntityValue")
        supporting ==
            SelectSeq(into_prerequisites, LAMBDA row :
                row.right.relationshipType = "supports")
        flat == [i \in 1..Len(supporting) |->
                    [caseIdentifierUUID |-> supporting[i].left.caseIdentifierUUID,
                     statementCode |-> supporting[i].left.statementCode,
                     standardDescription |-> supporting[i].left.standardDescription,
                     sourceEntityValue |-> supporting[i].right.sourceEntityValue]]
        joined == Merge(flat, components, "sourceEntityValue", "identifier")
    IN  [i \in 1..Len(joined) |->
            [caseIdentifierUUID |-> joined[i].left.caseIdentifierUUID,
             statementCode |-> joined[i].left.statementCode,
             standardDescription |-> joined[i].left.standardDescription,
             learningComponentDescription |-> joined[i].right.description]]

\* `value or default` on a cell: the default for the empty string; a missing
\* cell (NaN) is truthy and stays
OrDefault(value, default) == IF value = "" THEN default ELSE value

\* the packaging without the grouping: one entry for every row
package_one_entry_per_row(target, all_rows) ==
    [targetStandard |->
        [statementCode |-> target.statementCode,
         description |-> OrDefault(target.description, "(no statement)")],
     prereqStandards |->
        [i \in 1..Len(all_rows) |->
            [statementCode |-> all_rows[i].statementCode,
             description |-> OrDefault(all_rows[i].standardDescription,
                                       "(no statement)"),
             supportingLearningComponents |->
                 <<[description |->
                      OrDefault(all_rows[i].learningComponentDescription,
                                "(no description)")]>>]]]

\* package_context_data, lines 257-280: the rows grouped by standard, the
\* standards in the order of their first row, the components of a standard
\* in row order
package_context_data(target, all_rows) ==
    LET case_ids == Unique(Column(all_rows, "caseIdentifierUUID"))
    IN  [targetStandard |->
            [statementCode |-> target.statementCode,
             description |-> OrDefault(target.description, "(no statement)")],
         prereqStandards |->
            [i \in 1..Len(case_ids) |->
                LET rows == SelectSeq(all_rows, LAMBDA row :
                                row.caseIdentifierUUID = case_ids[i])
                IN  [statementCode |-> rows[1].statementCode,
                     description |-> OrDefault(rows[1].standardDescription,
                                               "(no statement)"),
                     supportingLearningComponents |->
                         [j \in 1..Len(rows) |->
                             [description |->
                                 OrDefault(rows[j].learningComponentDescription,
                                           "(no description)")]]]]]

\* generate_practice, lines 320-329: what is returned for the model's answer
practice_result(context, answer) ==
    [aiGenerated |-> answer,
     targetStandard |-> context.targetStandard.statementCode,
     prerequisiteCount |-> Len(context.prereqStandards)]

-----------------------------------------------------------------------------
(* The files the generate_prereq_practice run is started on *)

PoolStandard(id, code, jurisdiction, subject) ==
    [caseIdentifierUUID |-> id, statementCode |-> code,
     jurisdiction |-> jurisdiction, academicSubject |-> subject,
     description |-> "about " \o code]

\* P0 is the standard looked for, with or without the target code; A1 and A2
\* are standards of the pool; X1 and X2 are outside the pool, by jurisdiction
\* and by subject
PoolStores ==
    {<<PoolStandard("A1", "5.NF.A.1", "Multi-State", "Mathematics"),
       PoolStandard("X1", "T.5", "Texas", "Mathematics"),
       PoolStandard("P0", code, "Multi-State", "Mathematics"),
       PoolStandard("X2", "S.5", "Multi-State", "Science"),
       PoolStandard("A2", "4.OA.B.4", "Multi-State", "Mathematics")>> :
        code \in {TARGET_CODE, "6.NS.B.3"}}

\* L1 and L2 are stored components; L9 is in no store
PoolComponents == <<Component("L1", "d1"), Component("L2", "d2")>>

\* the rows Relationships.csv is made of: `buildsTowards` rows into P0 from
\* the pool, from outside the pool and from Z9, which is in no store; one from
\* A1 to Z9; a `supports` row from a standard into P0; `supports` rows from
\* the components into A1 and A2, one of them from L9
PoolEdgeRows ==
    {Edge("buildsTowards", s, "P0") : s \in {"A1", "A2", "X1", "Z9"}}
        \cup {Edge("buildsTowards", "A1", "Z9"), Edge("supports", "A1", "P0"),
              Edge("supports", "L1", "A1"), Edge("supports", "L2", "A1"),
              Edge("supports", "L1", "A2"), Edge("supports", "L9", "A1")}

\* the answers of the language model
Answers == {"questions"}

-----------------------------------------------------------------------------
(* main() of generate_prereq_practice.py, one action per step *)

csvFiles == <<standards_framework_items_csv, learning_components_csv, relationships_csv>>

\* main, lines 347-351: load_data
LoadData ==
    /\ prereq_pc = "step1"
    /\ relevant_standards' = relevant_standards_of(standards_framework_items_csv)
    /\ relevant_relationships' =
          relevant_relationships_of(relationships_csv, relevant_standards')
    /\ relevant_learning_components' =
          relevant_learning_components_of(learning_components_csv, relevant_relationships')
    /\ prereq_pc' = "step2"
    /\ UNCHANGED <<csvFiles, standard_and_prereq_data, prerequisite_learning_components,
                   full_standards_context, practice>>
    /\ UNCHANGED <<graphVars, embeddingVars>>

\* query_prerequisite_data, lines 233-235, and main, lines 356-358: look the
\* target standard and its prerequisites up; without a target standard
\* query_prerequisite_data returns None and main returns
GetStandardAndPrerequisites ==
    /\ prereq_pc = "step2"
    /\ standard_and_prereq_data' =
          get_standard_and_prerequisites(relevant_standards, relevant_relationships)
    /\ prereq_pc' = IF standard_and_prereq_data'.found THEN "prerequisites"
                    ELSE "not_found"
    /\ UNCHANGED <<csvFiles, relevant_standards, relevant_relationships,
                   relevant_learning_components, prerequisite_learning_components,
                   full_standards_context, practice>>
    /\ UNCHANGED <<graphVars, embeddingVars>>

\* query_prerequisite_data, lines 237-241
GetLearningComponentsForPrerequisites ==
    /\ prereq_pc = "prerequisites"
    /\ prerequisite_learning_components' =
          get_learning_components_for_prerequisites(
              standard_and_prereq_data.prerequisite_standards,
              relevant_relationships, relevant_learning_components)
    /\ prereq_pc' = "step3"
    /\ UNCHANGED <<csvFiles, relevant_standards, relevant_relationships,
                   relevant_learning_components, standard_and_prereq_data,
                   full_standards_context, practice>>
    /\ UNCHANGED <<graphVars, embeddingVars>>

\* main, lines 360-364
PackageContextData ==
    /\ prereq_pc = "step3"
    /\ full_standards_context' =
          package_context_data(standard_and_prereq_data.target_standard,
                               prerequisite_learning_components)
    /\ prereq_pc' = "packaged"
    /\ UNCHANGED <<csvFiles, relevant_standards, relevant_relationships,
                   relevant_learning_components, standard_and_prereq_data,
                   prerequisite_learning_components, practice>>
    /\ UNCHANGED <<graphVars, embeddingVars>>

\* main, lines 365-369, and generate_practice, lines 292-332: ask the
\* language model for the questions; its exception is printed and raised
\* again
GeneratePractice ==
    /\ prereq_pc = "packaged"
    /\ IF GENERATE_PRACTICE
       THEN \E model_raises \in BOOLEAN :
               IF model_raises
               THEN prereq_pc' = "raised" /\ UNCHANGED practice
               ELSE /\ \E answer \in Answers :
                          practice' = practice_result(full_standards_context, answer)
                    /\ prereq_pc' = "done"
       ELSE prereq_pc' = "done" /\ UNCHANGED practice
    /\ UNCHANGED <<csvFiles, relevant_standards, relevant_relationships,
                   relevant_learning_components, standard_and_prereq_data,
                   prerequisite_learning_components, full_standards_context>>
    /\ UNCHANGED <<graphVars, embeddingVars>>

NextPrereq ==
    \/ LoadData
    \/ GetStandardAndPrerequisites
    \/ GetLearningComponentsForPrerequisites
    \/ PackageContextData
    \/ GeneratePractice

-----------------------------------------------------------------------------
(* One run of a query script on files with dangling rows *)

\* the rows of a relationship store of compare_standards with dangling rows:
\* `supports` rows of the stored components, rows from C3, which is in no
\* store, and rows into T9, which is in no store
DanglingEdgeRows ==
    {Edge("supports", c, s) : c \in {"C1", "C2", "C3"}, s \in {"S1", "T1"}}
        \cup {Edge("supports", "C1", "T9"), Edge("supports", "C3", "T9")}

\* a run of main() of compare_standards, or a run of main() of
\* generate_prereq_practice, or one of each side by side, each on its own
\* data directory with relationship files of at most two rows
InitQueries ==
    \/ /\ standards_framework_items_data \in StandardStores
       /\ learning_components_data \in ComponentStores
       /\ relationships_data \in SeqsUpTo(DanglingEdgeRows, MaxLinks)
       /\ GraphStart
       /\ EmbeddingIdle
       /\ PrereqIdle
    \/ /\ GraphIdle
       /\ EmbeddingIdle
       /\ standards_framework_items_csv \in PoolStores
       /\ learning_components_csv = PoolComponents
       /\ relationships_csv \in SeqsUpTo(PoolEdgeRows, MaxLinks)
       /\ prereq_pc = "step1"
       /\ PrereqStart
    \/ /\ standards_framework_items_data \in StandardStores
       /\ learning_components_data \in ComponentStores
       /\ relationships_data \in SeqsUpTo(DanglingEdgeRows, 2)
       /\ GraphStart
       /\ EmbeddingIdle
       /\ standards_framework_items_csv \in PoolStores
       /\ learning_components_csv = PoolComponents
       /\ relationships_csv \in SeqsUpTo(PoolEdgeRows, 2)
       /\ prereq_pc = "step1"
       /\ PrereqStart

NextQueries == Next \/ NextPrereq

SpecQueries == InitQueries /\ [][NextQueries]_vars

-----------------------------------------------------------------------------
(* Properties of the relationship queries *)

StoredComponentIds == Range(Column(learning_components_data, "identifier"))

\* the description the learning-component store holds for an id
DescriptionOf(id) ==
    (CHOOSE c \in Range(learning_components_data) : c.identifier = id).description

\* the row of the standards store with the given id
StandardOf(id) ==
    CHOOSE s \in Range(standards_framework_items_data) : s.caseIdentifierUUID = id

\* the positions of the `supports` rows from a stored component to standard id
SupportRows(id) ==
    {i \in DOMAIN relationships_data :
        /\ relationships_data[i].relationshipType = "supports"
        /\ relationships_data[i].targetEntityValue = id
        /\ relationships_data[i].sourceEntityValue \in StoredComponentIds}

\* the positions of the `supports` rows from one of the target's components
\* to standard id
TriggerRows(id) ==
    {i \in DOMAIN relationships_data :
        /\ relationships_data[i].relationshipType = "supports"
        /\ relationships_data[i].targetEntityValue = id
        /\ relationships_data[i].sourceEntityValue
              \in Range(Column(supporting_lcs, "identifier"))}

Min(S) == CHOOSE x \in S : \A y \in S : x <= y

Matched == pc \in {"matched", "done"}

\* C1: every matched standard is returned with the full list of its
\* supporting components, the one extract_supporting_learning_components
\* returns for it on the whole relationship store, whether or not a component
\* is one of those that caused the match.
FullExpansion ==
    Matched =>
        \A i \in DOMAIN matched_texas_standards :
            LET m == matched_texas_standards[i]
                all == extract_supporting_learning_components(
                           StandardOf(m.caseIdentifierUUID),
                           relationships_data, learning_components_data)
            IN  /\ m.lcIdentifier = Column(all, "identifier")
                /\ m.lcDescription = Column(all, "description")

\* C1 witness: a matched standard is returned with a component that is not
\* one of the target's components.
FullExpansionWitness ==
    /\ Matched
    /\ \E i \in DOMAIN matched_texas_standards :
         \E j \in DOMAIN matched_texas_standards[i].lcIdentifier :
            matched_texas_standards[i].lcIdentifier[j]
                \notin Range(Column(supporting_lcs, "identifier"))

\* what C2 states of the result rows of a query for the standard id
ExactlySupporting(rows, id) ==
    /\ \A c \in StoredComponentIds :
          Cardinality({k \in DOMAIN rows : rows[k].identifier = c})
              = Cardinality({i \in SupportRows(id) :
                                relationships_data[i].sourceEntityValue = c})
    /\ \A k \in DOMAIN rows :
          /\ rows[k].identifier \in StoredComponentIds
          /\ rows[k].description = DescriptionOf(rows[k].identifier)
    /\ (SupportRows(id) = {}) => (rows = <<>>)

\* C2: extract_supporting_learning_components returns exactly the stored
\* components that are the source of a `supports` row targeting the standard,
\* once per such row: rows of another type or target add nothing, and the
\* result is empty when there is no such row. It holds of the target's
\* components and of the query for every standard of the store.
SupportingComponentsExact ==
    /\ pc \in {"extracted", "matched", "done"} =>
          ExactlySupporting(supporting_lcs, target_standard.caseIdentifierUUID)
    /\ \A s \in Range(standards_framework_items_data) :
          ExactlySupporting(
              extract_supporting_learning_components(
                  s, relationships_data, learning_components_data),
              s.caseIdentifierUUID)

\* C2 witness: the target has a supporting component, and the store holds a
\* row of another type for the target and a `supports` row of another target.
SupportingComponentsWitness ==
    /\ pc = "extracted"
    /\ supporting_lcs # <<>>
    /\ \E i, j \in DOMAIN relationships_data :
          /\ relationships_data[i].relationshipType # "supports"
          /\ relationships_data[i].targetEntityValue = target_standard.caseIdentifierUUID
          /\ relationships_data[j].relationshipType = "supports"
          /\ relationships_data[j].targetEntityValue # target_standard.caseIdentifierUUID

\* C3: the matched standards are exactly the Texas standards that are the
\* target of a `supports` row from one of the target's components, each once,
\* in the order in which their first such row occurs in the relationship store.
DiscoveryInEdgeOrder ==
    Matched =>
        LET ids == Column(matched_texas_standards, "caseIdentifierUUID")
        IN  /\ Range(ids) =
                  {s.caseIdentifierUUID : s \in
                      {x \in Range(standards_framework_items_data) :
                          /\ x.jurisdiction = "Texas"
                          /\ TriggerRows(x.caseIdentifierUUID) # {}}}
            /\ \A i, j \in DOMAIN ids :
                  i < j => Min(TriggerRows(ids[i])) < Min(TriggerRows(ids[j]))

\* C3 witness: two standards are matched, the one that comes later in the
\* standards store first, and one of them by more than one row.
DiscoveryWitness ==
    /\ Matched
    /\ Len(matched_texas_standards) = 2
    /\ matched_texas_standards[1].caseIdentifierUUID = "T2"
    /\ \E i \in DOMAIN matched_texas_standards :
          Cardinality(TriggerRows(matched_texas_standards[i].caseIdentifierUUID)) > 1

RECURSIVE Orderings(_)
\* the orderings of the elements of a sequence
Orderings(s) ==
    IF s = <<>> THEN {<<>>}
    ELSE UNION {{<<s[i]>> \o p :
                   p \in Orderings([k \in 1..(Len(s) - 1) |->
                                          IF k < i THEN s[k] ELSE s[k + 1]])} :
                i \in DOMAIN s}

\* C4: whatever the order in which the target's components are given, the
\* same standards are matched with the same component lists, and each list is
\* in the order of the relationship rows.
OrderInvariant ==
    Matched =>
        /\ \A p \in Orderings(supporting_lcs) :
              find_matched_texas_standards(
                  p, relationships_data, standards_framework_items_data,
                  learning_components_data) = matched_texas_standards
        /\ \A i \in DOMAIN matched_texas_standards :
              LET m == matched_texas_standards[i]
              IN  m.lcIdentifier =
                      Column(SelectSeq(relationships_data, LAMBDA r :
                                 /\ r.relationshipType = "supports"
                                 /\ r.targetEntityValue = m.caseIdentifierUUID
                                 /\ r.sourceEntityValue \in StoredComponentIds),
                             "sourceEntityValue")

\* C4 witness: the target has two components and a matched standard lists
\* them in the opposite order.
OrderInvariantWitness ==
    /\ Matched
    /\ Column(supporting_lcs, "identifier") = <<"C1", "C2">>
    /\ \E i \in DOMAIN matched_texas_standards :
          matched_texas_standards[i].lcIdentifier = <<"C2", "C1">>

\* C6: the overlap count is the number of positions of the matched standard's
\* description list whose description occurs among the target's descriptions,
\* the total is the number of the target's components, the ratio is
\* "count/total", and the count is not clamped to the total.
OverlapCountAndTotal ==
    pc = "done" =>
        /\ Len(results_with_overlap) = Len(matched_texas_standards)
        /\ \A i \in DOMAIN results_with_overlap :
              LET r == results_with_overlap[i]
                  count == Cardinality(
                      {k \in DOMAIN matched_texas_standards[i].lcDescription :
                          \E j \in DOMAIN supporting_lcs :
                              matched_texas_standards[i].lcDescription[k]
                                  = supporting_lcs[j].description})
              IN  /\ r.overlapCount = count
                  /\ r.overlapCount >= 0
                  /\ r.totalTargetLCs = Len(supporting_lcs)
                  /\ r.overlapRatio = ToString(count) \o "/" \o ToString(Len(supporting_lcs))

\* C6 witness: a count above the total
OverlapAboveTotalWitness ==
    /\ pc = "done"
    /\ \E i \in DOMAIN results_with_overlap :
          results_with_overlap[i].overlapCount > results_with_overlap[i].totalTargetLCs

\* C7: a component of a matched standard counts as overlapping exactly when
\* the store's description of it is the description of one of the target's
\* components, whatever its identifier; with other description text under
\* the same identifiers nothing overlaps.
OverlapByDescription ==
    pc = "done" =>
        \A i \in DOMAIN results_with_overlap :
            LET r == results_with_overlap[i]
                target_descriptions ==
                    {DescriptionOf(c.identifier) : c \in Range(supporting_lcs)}
            IN  /\ r.overlapCount =
                      Cardinality({k \in DOMAIN r.lcIdentifier :
                          DescriptionOf(r.lcIdentifier[k]) \in target_descriptions})
                /\ display_comparison_results(
                      supporting_lcs,
                      <<[matched_texas_standards[i] EXCEPT !.lcDescription =
                            [k \in DOMAIN r.lcDescription |-> "other text"]]>>
                      )[1].overlapCount = 0

\* C7 witness: a component that is not one of the target's components is
\* counted, because its description is that of one of them.
OverlapByDescriptionWitness ==
    /\ pc = "done"
    /\ \E i \in DOMAIN results_with_overlap :
          results_with_overlap[i].overlapCount >
              Cardinality({k \in DOMAIN results_with_overlap[i].lcIdentifier :
                  results_with_overlap[i].lcIdentifier[k]
                      \in Range(Column(supporting_lcs, "identifier"))})

-----------------------------------------------------------------------------
(* The scenario of three standards and three components *)

\* the relationship rows of the scenario, listed per standard
ScenarioEdges ==
    <<Edge("supports", "C1", "S1"), Edge("supports", "C2", "S1"),
      Edge("supports", "C1", "T1"), Edge("supports", "C3", "T1"),
      Edge("supports", "C2", "T2")>>

\* position of row e in the sequence s
PositionOf(e, s) == CHOOSE i \in DOMAIN s : s[i] = e

\* S1 (Multi-State) is supported by C1, C2; T1 (Texas) by C1, C3; T2 (Texas)
\* by C2. The rows of one standard are stored in the order listed, the rows
\* of different standards in any order; each component has some description.
ScenarioInit ==
    /\ standards_framework_items_data =
          <<Standard("S1", TARGET_STANDARD_CODE, "Multi-State"),
            Standard("T1", "T.1", "Texas"), Standard("T2", "T.2", "Texas")>>
    /\ learning_components_data \in
          {<<Component("C1", a), Component("C2", b), Component("C3", c)>> :
              a \in {"d1", "d2", "d3"}, b \in {"d1", "d2", "d3"}, c \in {"d1", "d2", "d3"}}
    /\ relationships_data \in
          {s \in Orderings(ScenarioEdges) :
              /\ PositionOf(ScenarioEdges[1], s) < PositionOf(ScenarioEdges[2], s)
              /\ PositionOf(ScenarioEdges[3], s) < PositionOf(ScenarioEdges[4], s)}
    /\ GraphStart
    /\ EmbeddingIdle
    /\ PrereqIdle

SpecScenario == ScenarioInit /\ [][Next]_vars

\* the result the scenario is expected to give: T1 with components C1, C3 and
\* T2 with component C2, both with overlap 1/2, and nothing else
ScenarioResult ==
    /\ Len(results_with_overlap) = 2
    /\ {<<r.caseIdentifierUUID, r.lcIdentifier, r.overlapRatio>> :
            r \in Range(results_with_overlap)}
          = {<<"T1", <<"C1", "C3">>, "1/2">>, <<"T2", <<"C2">>, "1/2">>}

\* C5 as stated: in the scenario the matched standards are T1 with [C1, C3]
\* and T2 with [C2], and the overlap of each is 1/2.
ScenarioAsStated == pc = "done" => ScenarioResult

\* the description of C3 is neither that of C1 nor that of C2
ThirdDescriptionDiffers ==
    DescriptionOf("C3") \notin {DescriptionOf("C1"), DescriptionOf("C2")}

\* C5 amended: in the scenario, when the description of C3 differs from
\* those of C1 and C2, the matched standards are T1 with [C1, C3] and T2 with
\* [C2], and the overlap of each is 1/2.
ScenarioWithDistinctThird ==
    (pc = "done" /\ ThirdDescriptionDiffers) => ScenarioResult

\* C5 witness: the scenario has run to its end with such descriptions, T2
\* matched first.
ScenarioWitness ==
    /\ pc = "done"
    /\ ThirdDescriptionDiffers
    /\ Len(results_with_overlap) = 2
    /\ results_with_overlap[1].caseIdentifierUUID = "T2"

-----------------------------------------------------------------------------
(* Properties of the vector search and of the embedding file *)

\* position in the loaded record set of the record of a result
LoadedPosition(p, result) ==
    CHOOSE i \in DOMAIN stored_embeddings[p] :
        stored_embeddings[p][i].caseIdentifierUUID = result.caseIdentifierUUID

\* C8: the results of vector_search carry the scores of their records, are
\* ordered by score non-increasing, and two results of equal score are in
\* the order of their records in the loaded record set.
RankedByScoreStable ==
    \A p \in Runs :
        run_pc[p] = "done" =>
            /\ \A i \in DOMAIN top_results[p] :
                  top_results[p][i].score =
                      cosine_similarity(
                          query_embedding[p],
                          stored_embeddings[p][LoadedPosition(p, top_results[p][i])].embedding)
            /\ \A i, j \in DOMAIN top_results[p] :
                  i < j =>
                      /\ ~ScoreLess(top_results[p][i].score, top_results[p][j].score)
                      /\ top_results[p][i].score = top_results[p][j].score =>
                            LoadedPosition(p, top_results[p][i])
                                < LoadedPosition(p, top_results[p][j])

\* C8 witness: three results, the first two of equal score from records that
\* are not neighbours in the record set, the third of a lower score.
RankedWitness ==
    \E p \in Runs :
        /\ run_pc[p] = "done"
        /\ Len(top_results[p]) = 3
        /\ top_results[p][1].score = top_results[p][2].score
        /\ ScoreLess(top_results[p][3].score, top_results[p][2].score)
        /\ LoadedPosition(p, top_results[p][1]) = 1
        /\ LoadedPosition(p, top_results[p][2]) = 3

\* C9: vector_search with top_k >= 0 on n loaded records ends with
\* min(top_k, n) results: none for top_k = 0, all n for top_k > n.
TopKLength ==
    \A p \in Runs :
        run_pc[p] = "done" =>
            /\ Len(top_results[p]) <= top_k[p]
            /\ Len(top_results[p]) =
                  (IF top_k[p] < Len(stored_embeddings[p]) THEN top_k[p]
                   ELSE Len(stored_embeddings[p]))
            /\ top_k[p] = 0 => top_results[p] = <<>>
            /\ top_k[p] > Len(stored_embeddings[p]) =>
                  {r.caseIdentifierUUID : r \in Range(top_results[p])}
                      = {r.caseIdentifierUUID : r \in Range(stored_embeddings[p])}

\* C9 witness: a search for more results than the two or more loaded records
TopKWitness ==
    \E p \in Runs :
        /\ run_pc[p] = "done"
        /\ Len(stored_embeddings[p]) >= 2
        /\ top_k[p] > Len(stored_embeddings[p])

\* the record set a generation run writes
NewRecords ==
    LET standards == embed_standard_data(framework_items_data)
    IN  [i \in 1..Len(standards) |->
            embedding_record(standards[i], embed_model[standards[i].description])]

\* C10: a search that reads the embedding file while another run persists a
\* new record set loads the complete previous record set or the complete new
\* one; it never finds the file empty or partially written.
AtomicReplace ==
    \A p \in Runs :
        /\ run_pc[p] # "load_error"
        /\ run_pc[p] \in {"ranking", "done"} =>
              stored_embeddings[p] \in {OldRecords, NewRecords}

-----------------------------------------------------------------------------
(* Failures of the embedding model in generate_embeddings *)

\* C11: when embedding one standard fails in generate_embeddings, the records
\* computed for the earlier standards are not discarded: a run that the
\* failure has ended has left them in the embedding file.
ComputedResultsKept ==
    \A p \in Runs :
        (run_pc[p] = "raised" /\ raised[p] = "Exception" /\ results[p] # <<>>) =>
            LET loaded == read_embedding_file(embedding_file)
            IN  loaded.error = "none" /\ loaded.value = results[p]

-----------------------------------------------------------------------------
(* The embedding file that vector_search finds *)

\* the file is there and holds a JSON array of records that have the fields
\* of embedding_record, with vectors of one dimension
MatchesSchema(file) ==
    /\ file.exists
    /\ LET loaded == json_load(file.text)
       IN  /\ loaded.error = "none"
           /\ \A i \in DOMAIN loaded.value :
                 DOMAIN loaded.value[i] =
                     {"caseIdentifierUUID", "statementCode", "embedding"}
           /\ \A i, j \in DOMAIN loaded.value :
                 Len(loaded.value[i].embedding) = Len(loaded.value[j].embedding)

\* C15: whenever the embedding file is missing or does not match the schema,
\* loading it in vector_search fails and the search does not return normally:
\* a search that has returned behind its load error message, or has got
\* behind the load, has found a file that matches the schema.
LoadFailsOnBadFile ==
    \A p \in Runs :
        run_pc[p] \in {"load_error", "ranking", "done"} =>
            MatchesSchema(embedding_file)

\* C16: a query vector of another dimension than the stored vectors ends
\* vector_search with an error and without a ranking, and that error tells
\* the mismatch from a missing or malformed file: the run that ends with it
\* has found a file that matches the schema.
DimensionMismatchDistinct ==
    \A p \in Runs :
        /\ ( /\ run_pc[p] \in {"done", "raised"}
             /\ stored_embeddings[p] # <<>>
             /\ MatchesSchema(embedding_file)
             /\ Len(stored_embeddings[p][1].embedding) # Len(query_embedding[p]) ) =>
                /\ raised[p] = "ValueError"
                /\ top_results[p] = <<>>
        /\ (run_pc[p] = "raised" /\ raised[p] = "ValueError") =>
                MatchesSchema(embedding_file)

-----------------------------------------------------------------------------
(* Warnings *)

\* the lines a run prints about its progress
ProgressLines ==
    {"Step 3", "Generating embeddings", "Embedding generation disabled",
     "Saved embeddings", "Step 4", "Top results"}
        \cup {"ok " \o framework_items_data[i].statementCode :
                 i \in DOMAIN framework_items_data}

\* the run has printed a line that is no progress line
Warned(p) == \E j \in DOMAIN printed[p] : printed[p][j] \notin ProgressLines

\* C17: a row whose gradeLevel cannot be parsed is skipped with a recorded
\* warning and is not silently taken for a row without a middle-school
\* grade: a run that has filtered a standards file with such a row has left
\* the row out and has recorded a warning.
MalformedGradeWarned ==
    \A p \in Runs :
        \A i \in DOMAIN framework_items_data :
            ( /\ run_pc[p] \in {"embedding", "dumping", "step4"}
              /\ framework_items_data[i].gradeLevel.kind = "malformed" ) =>
                /\ \A j \in DOMAIN embedding_standards[p] :
                      embedding_standards[p][j].caseIdentifierUUID
                          # framework_items_data[i].caseIdentifierUUID
                /\ Warned(p)

-----------------------------------------------------------------------------
(* The embedding file within one run *)

ReadStarted == {"ranking", "load_error", "done"}

\* C19: within one run of main the write phase and the read phase of the
\* embedding file do not interleave: when vector_search opens the file, every
\* append is done and the file holds the whole text of the records; once the
\* file has been opened for reading, no record is appended and the file is
\* not written.
WriteBeforeRead ==
    [][\A p \in Runs :
          /\ (generate_flag[p] /\ run_pc[p] = "loading" /\ run_pc'[p] # "loading") =>
                /\ Len(results[p]) = Len(embedding_standards[p])
                /\ embedding_file = [exists |-> TRUE, text |-> json_dump(results[p])]
          /\ run_pc[p] \in ReadStarted =>
                /\ results'[p] = results[p]
                /\ embedding_file' = embedding_file
          /\ (run_pc[p] = "loading" /\ run_pc'[p] # "loading") =>
                /\ results'[p] = results[p]
                /\ embedding_file' = embedding_file]_vars

\* C19 witness: a run has written two or more records and has then searched
WriteBeforeReadWitness ==
    \E p \in Runs :
        /\ generate_flag[p]
        /\ run_pc[p] = "done"
        /\ Len(results[p]) >= 2
        /\ top_results[p] # <<>>

-----------------------------------------------------------------------------
(* Vectors of norm zero *)

ZeroNorm(v) == Dot(v, v) = 0

\* C20: when the query vector or a stored vector has norm zero, the score of
\* the pair is 0, no result carries an undefined score, and the search has
\* flagged the event as a warning.
ZeroNormClamped ==
    \A p \in Runs :
        \A i \in DOMAIN top_results[p] :
            LET stored == stored_embeddings[p][LoadedPosition(p, top_results[p][i])]
            IN  ( /\ run_pc[p] = "done"
                  /\ ZeroNorm(query_embedding[p]) \/ ZeroNorm(stored.embedding) ) =>
                    /\ top_results[p][i].score = [num |-> 0, den |-> 1]
                    /\ \A j \in DOMAIN top_results[p] : top_results[p][j].score.den > 0
                    /\ Warned(p)

-----------------------------------------------------------------------------
(* The queries of compare_standards and of generate_prereq_practice *)

\* no standard of the store of compare_standards is the target standard
TargetAbsent ==
    \A i \in DOMAIN standards_framework_items_data :
        ~ /\ standards_framework_items_data[i].statementCode = TARGET_STANDARD_CODE
          /\ standards_framework_items_data[i].jurisdiction = "Multi-State"

\* no standard of the candidate pool of generate_prereq_practice has the
\* target code
PoolTargetAbsent ==
    \A i \in DOMAIN standards_framework_items_csv :
        ~ /\ standards_framework_items_csv[i].statementCode = TARGET_CODE
          /\ standards_framework_items_csv[i].jurisdiction = JURISDICTION
          /\ standards_framework_items_csv[i].academicSubject = ACADEMIC_SUBJECT

\* C12: when the target standard is absent, the lookup reports not-found,
\* the run ends there and no later step of the query path has run: in
\* compare_standards no extraction, matching or overlap, in
\* generate_prereq_practice no component query, packaging or generation; no
\* step of the script is possible any more, the lookup is not repeated.
NotFoundStopsQuery ==
    /\ (pc \notin {"off", "start"} /\ TargetAbsent) =>
          /\ pc = "not_found"
          /\ target_standard = NoStandard
          /\ supporting_lcs = <<>>
          /\ matched_texas_standards = <<>>
          /\ results_with_overlap = <<>>
          /\ ~ENABLED Next
    /\ (prereq_pc \notin {"off", "step1", "step2"} /\ PoolTargetAbsent) =>
          /\ prereq_pc = "not_found"
          /\ standard_and_prereq_data = NoPrerequisiteData
          /\ prerequisite_learning_components = <<>>
          /\ full_standards_context = NoContext
          /\ practice = NoPractice
          /\ ~ENABLED NextPrereq

\* C12 witness: both scripts have looked for their target standard in files
\* that have rows about other standards, and have not found it
NotFoundWitness ==
    /\ pc = "not_found"
    /\ prereq_pc = "not_found"
    /\ relationships_data # <<>>
    /\ relevant_relationships # <<>>

\* the standards of the candidate pool: the rows of StandardsFrameworkItem.csv
\* of the jurisdiction and the subject
PoolStandards ==
    {s \in Range(standards_framework_items_csv) :
        s.jurisdiction = JURISDICTION /\ s.academicSubject = ACADEMIC_SUBJECT}

\* the rows of Relationships.csv that are `buildsTowards` rows from a
\* standard of the pool into the standard, in file order
PrerequisiteRows(id) ==
    SelectSeq(relationships_csv, LAMBDA r :
        /\ r.relationshipType = "buildsTowards"
        /\ r.targetEntityValue = id
        /\ \E s \in PoolStandards : s.caseIdentifierUUID = r.sourceEntityValue)

NoPrerequisitesWitness ==
    /\ prereq_pc = "done"
    /\ standard_and_prereq_data.prerequisite_standards = <<>>
    /\ relationships_csv # <<>>

\* the rows whose source and target are in an entity store
WithoutDangling(rows, ids) ==
    SelectSeq(rows, LAMBDA r : r.sourceEntityValue \in ids /\ r.targetEntityValue \in ids)

\* the ids of the entity stores of compare_standards
StoredIds ==
    {s.caseIdentifierUUID : s \in Range(standards_framework_items_data)}
        \cup {c.identifier : c \in Range(learning_components_data)}

\* the ids of the entity stores of generate_prereq_practice
StoredCsvIds ==
    {s.caseIdentifierUUID : s \in Range(standards_framework_items_csv)}
        \cup {c.identifier : c \in Range(learning_components_csv)}

\* C14: a relationship row whose source or target is in no entity store makes
\* no query fail and adds nothing: every query ends with the result it has on
\* the relationship rows without the dangling ones, and every element of a
\* result is a stored entity. This holds of the supporting components, of the
\* matched standards with their components and of the prerequisites.
DanglingEdgesIgnored ==
    /\ pc \in {"extracted", "matched", "done"} =>
          /\ supporting_lcs =
                extract_supporting_learning_components(
                    target_standard,
                    WithoutDangling(relationships_data, StoredIds),
                    learning_components_data)
          /\ \A i \in DOMAIN supporting_lcs : supporting_lcs[i].identifier \in StoredIds
    /\ pc \in {"matched", "done"} =>
          /\ matched_texas_standards =
                find_matched_texas_standards(
                    supporting_lcs,
                    WithoutDangling(relationships_data, StoredIds),
                    standards_framework_items_data, learning_components_data)
          /\ \A i \in DOMAIN matched_texas_standards :
                /\ matched_texas_standards[i].caseIdentifierUUID \in StoredIds
                /\ \A j \in DOMAIN matched_texas_standards[i].lcIdentifier :
                      matched_texas_standards[i].lcIdentifier[j] \in StoredIds
    /\ prereq_pc \in {"prerequisites", "step3", "packaged", "done", "raised"} =>
          /\ standard_and_prereq_data =
                get_standard_and_prerequisites(
                    relevant_standards,
                    relevant_relationships_of(
                        WithoutDangling(relationships_csv, StoredCsvIds),
                        relevant_standards))
          /\ \A i \in DOMAIN standard_and_prereq_data.prerequisite_standards :
                standard_and_prereq_data.prerequisite_standards[i].caseIdentifierUUID
                    \in StoredCsvIds

\* C14 witness: both scripts have finished on relationship files that begin
\* with a dangling row; the target has a supporting component and a
\* prerequisite
DanglingEdgesWitness ==
    /\ pc = "done"
    /\ Len(relationships_data) = 2
    /\ Len(relationships_csv) = 2
    /\ relationships_data[1].sourceEntityValue \notin StoredIds
    /\ supporting_lcs # <<>>
    /\ prereq_pc = "done"
    /\ relationships_csv[1].sourceEntityValue \notin StoredCsvIds
    /\ relationships_csv[1].relationshipType = "buildsTowards"
    /\ standard_and_prereq_data.prerequisite_standards # <<>>

-----------------------------------------------------------------------------
(* Searching with a stored vector *)

One == [num |-> 1, den |-> 1]

\* the positions of the loaded records that hold the query vector
QueryPositions(p) ==
    {i \in DOMAIN stored_embeddings[p] :
        stored_embeddings[p][i].embedding = query_embedding[p]}

\* the positions of the loaded records whose score is 1.0
TopScorePositions(p) ==
    {i \in DOMAIN stored_embeddings[p] :
        cosine_similarity(query_embedding[p], stored_embeddings[p][i].embedding) = One}

\* a search for one result or more with a stored vector that is not zero
SelfSearch(p) ==
    /\ run_pc[p] = "done"
    /\ top_k[p] >= 1
    /\ ~ZeroNorm(query_embedding[p])
    /\ QueryPositions(p) # {}

-----------------------------------------------------------------------------
(* Generation runs one after the other *)

\* the standards of the standards file that a generation run is to embed
SelectedStandards ==
    SelectSeq(framework_items_data, LAMBDA s :
        /\ s.jurisdiction = "California"
        /\ s.academicSubject = "Mathematics"
        /\ s.normalizedStatementType = "Standard"
        /\ s.gradeLevel.kind = "array"
        /\ \E i \in DOMAIN s.gradeLevel.levels : s.gradeLevel.levels[i] \in {"6", "7", "8"}
        /\ s.description # "NaN")

\* the run has written the embedding file to its end
Saved(p) == \E i \in DOMAIN printed[p] : printed[p][i] = "Saved embeddings"

\* C22: after one or more successful generation runs on the same standards
\* file, whatever the embedding file held before, the file holds exactly one
\* record per selected standard, in store order, with the vector of its
\* description: records of earlier runs do not accumulate, and a second run
\* leaves the record set of the first.
OneRecordPerStandard ==
    ( /\ \E p \in Runs : Saved(p)
      /\ \A q \in Runs : run_pc[q] # "dumping" ) =>
        LET loaded == read_embedding_file(embedding_file)
        IN  /\ loaded.error = "none"
            /\ Len(loaded.value) = Len(SelectedStandards)
            /\ \A i \in DOMAIN SelectedStandards :
                  /\ loaded.value[i].caseIdentifierUUID
                        = SelectedStandards[i].caseIdentifierUUID
                  /\ loaded.value[i].embedding
                        = embed_model[SelectedStandards[i].description]
            /\ \A p \in Runs : Saved(p) => loaded.value = results[p]

\* C22 witness: two runs have written the file one after the other, for two
\* selected standards of a standards file that has another row as well
OneRecordWitness ==
    /\ \A p \in Runs : Saved(p) /\ run_pc[p] = "done"
    /\ Len(SelectedStandards) = 2
    /\ Len(framework_items_data) = 3
    /\ Len(read_embedding_file(embedding_file).value) = 2

-----------------------------------------------------------------------------
(* A failure of the embedding model and the embedding file *)

\* the steps of run p inside generate_embeddings, up to the opening of the file
GeneratingStep(p) ==
    /\ run_pc[p] \in {"step3", "embedding"}
    /\ run_pc'[p] \in {"embedding", "raised"}
    /\ <<run_pc'[p], results'[p]>> # <<run_pc[p], results[p]>>

\* C23: when embedding a standard raises in generate_embeddings, the run stops
\* at that standard (no further record is computed, the failure of that
\* standard is the last line printed, and the run takes no step afterwards),
\* the exception reaches the caller, and no step of the run from its start up
\* to the failure has changed the embedding file: it holds what it held
\* before the run, or is still absent.
FailedRunLeavesFile ==
    [][\A p \in Runs :
          /\ GeneratingStep(p) => embedding_file' = embedding_file
          /\ (run_pc[p] = "embedding" /\ run_pc'[p] = "raised") =>
                /\ raised'[p] = "Exception"
                /\ results'[p] = results[p]
                /\ Len(results[p]) < Len(embedding_standards[p])
                /\ printed'[p] = Append(printed[p], "failed " \o
                      embedding_standards[p][Len(results[p]) + 1].statementCode)
          /\ run_pc[p] = "raised" =>
                /\ run_pc'[p] = "raised"
                /\ results'[p] = results[p]
                /\ printed'[p] = printed[p]
                /\ raised'[p] = raised[p]]_vars

\* the second run has failed at its second standard, and the file holds the
\* two records that the first run saved
FailedRunWitness ==
    /\ run_pc["run2"] = "raised"
    /\ raised["run2"] = "Exception"
    /\ Len(results["run2"]) = 1
    /\ Len(embedding_standards["run2"]) = 2
    /\ Saved("run1")
    /\ ~ Saved("run2")
    /\ read_embedding_file(embedding_file).error = "none"
    /\ read_embedding_file(embedding_file).value = results["run1"]
    /\ Len(results["run1"]) = 2

-----------------------------------------------------------------------------
(* The standards discovered and the standards returned *)

\* the supporting_lcs arguments find_matched_texas_standards is applied to
\* besides those of the run: stored components, whether they support the
\* target or not, and C3, which is in no store, alone and with a stored one
LcArguments ==
    {<<Component("C2", "d1")>>, <<Component("C2", "d1"), Component("C1", "d1")>>,
     <<Component("C3", "d1")>>, <<Component("C1", "d1"), Component("C3", "d1")>>}

\* the Texas standards that a `supports` row links to one of the given ids
DiscoveredStandards(componentIds) ==
    {t \in Range(Column(SelectSeq(standards_framework_items_data,
                                   LAMBDA s : s.jurisdiction = "Texas"),
                        "caseIdentifierUUID")) :
        \E i \in DOMAIN relationships_data :
            /\ relationships_data[i].relationshipType = "supports"
            /\ relationships_data[i].sourceEntityValue \in componentIds
            /\ relationships_data[i].targetEntityValue = t}

\* the positions of standard t in a returned list
ReturnedAt(returned, t) ==
    {j \in DOMAIN returned : returned[j].caseIdentifierUUID = t}

\* the `supports` sources of standard t that are components of the store
StoredSources(t) ==
    {relationships_data[i].sourceEntityValue : i \in
        {i \in DOMAIN relationships_data :
            /\ relationships_data[i].relationshipType = "supports"
            /\ relationships_data[i].targetEntityValue = t
            /\ relationships_data[i].sourceEntityValue \in StoredComponentIds}}

DiscoveredReturned(lcs, returned) ==
    LET componentIds == Range(Column(lcs, "identifier"))
    IN  /\ componentIds \subseteq StoredComponentIds =>
              \A t \in DiscoveredStandards(componentIds) :
                  /\ Cardinality(ReturnedAt(returned, t)) = 1
                  /\ \A j \in ReturnedAt(returned, t) :
                        Range(returned[j].lcIdentifier) \cap componentIds # {}
        /\ \A t \in DiscoveredStandards(componentIds) :
              ReturnedAt(returned, t) = {} => StoredSources(t) = {}

\* C24: when all the given component ids are in the component store, every
\* Texas standard that a `supports` row links to one of them is in the list
\* find_matched_texas_standards returns exactly once, with at least one of
\* the given ids among its component ids; with any given ids, a discovered
\* standard is missing from the list only when no `supports` source of it is
\* a component of the store.  It holds of the list the run has computed and
\* of the list of every argument of LcArguments.
DiscoveredStandardsReturned ==
    pc = "matched" =>
        /\ DiscoveredReturned(supporting_lcs, matched_texas_standards)
        /\ \A lcs \in LcArguments :
              DiscoveredReturned(lcs,
                  find_matched_texas_standards(lcs, relationships_data,
                      standards_framework_items_data, learning_components_data))

\* the run has returned T2, discovered through C1 by two rows, once, with
\* its two components; for the argument C3, which is in no store, T1 is
\* discovered and left out
DiscoveredStandardsWitness ==
    /\ pc = "matched"
    /\ relationships_data = <<Edge("supports", "C1", "S1"), Edge("supports", "C1", "T2"),
                              Edge("supports", "C1", "T2"), Edge("supports", "C3", "T1")>>
    /\ Column(supporting_lcs, "identifier") = <<"C1">>
    /\ Len(matched_texas_standards) = 1
    /\ matched_texas_standards[1].caseIdentifierUUID = "T2"
    /\ matched_texas_standards[1].lcIdentifier = <<"C1", "C1">>
    /\ DiscoveredStandards({"C3"}) = {"T1"}
    /\ find_matched_texas_standards(<<Component("C3", "d1")>>, relationships_data,
           standards_framework_items_data, learning_components_data) = <<>>

-----------------------------------------------------------------------------
(* The packaged context *)

\* the rows package_context_data is applied to besides those of the run: its
\* rows in reverse order, and its rows twice over, where the rows of a
\* standard lie apart
RowArguments ==
    LET rows == prerequisite_learning_components
    IN  {[i \in 1..Len(rows) |-> rows[Len(rows) + 1 - i]], rows \o rows}

\* the rows at which a standard id occurs for the first time
FirstOccurrences(all_rows) ==
    {i \in DOMAIN all_rows :
        \A j \in 1..(i - 1) : all_rows[j].caseIdentifierUUID # all_rows[i].caseIdentifierUUID}

RECURSIVE TotalComponents(_)
\* the number of components listed in all the entries
TotalComponents(entries) ==
    IF entries = <<>> THEN 0
    ELSE Len(entries[1].supportingLearningComponents)
            + TotalComponents(SubSeq(entries, 2, Len(entries)))

GroupedByStandard(all_rows, entries) ==
    LET firsts == FirstOccurrences(all_rows)
    IN  /\ Len(entries) = Cardinality(firsts)
        /\ \A i \in firsts :
              LET k == Cardinality({j \in firsts : j <= i})
                  own == SelectSeq(all_rows, LAMBDA row :
                             row.caseIdentifierUUID = all_rows[i].caseIdentifierUUID)
              IN  /\ entries[k].statementCode = all_rows[i].statementCode
                  /\ entries[k].description = all_rows[i].standardDescription
                  /\ Column(entries[k].supportingLearningComponents, "description")
                        = Column(own, "learningComponentDescription")
        /\ TotalComponents(entries) = Len(all_rows)

\* C25: prereqStandards of the packaged context has one entry for each
\* distinct standard id of the rows, in the order in which the ids first
\* occur, with the code and the description of the standard and with the
\* component descriptions of its rows in row order, so that the components
\* listed are as many as the rows; a prerequisite standard found by
\* get_standard_and_prerequisites that has no row has no entry.  It holds of
\* the context the run has packaged and of the context of every argument of
\* RowArguments.
PackagedByStandard ==
    /\ prereq_pc \in {"packaged", "done", "raised"} =>
          /\ GroupedByStandard(prerequisite_learning_components,
                               full_standards_context.prereqStandards)
          /\ \A s \in Range(standard_and_prereq_data.prerequisite_standards) :
                (\A i \in DOMAIN prerequisite_learning_components :
                    prerequisite_learning_components[i].caseIdentifierUUID
                        # s.caseIdentifierUUID)
                => \A k \in DOMAIN full_standards_context.prereqStandards :
                      full_standards_context.prereqStandards[k].statementCode
                          # s.statementCode
    /\ prereq_pc = "packaged" =>
          \A all_rows \in RowArguments :
              GroupedByStandard(all_rows,
                  package_context_data(standard_and_prereq_data.target_standard,
                                       all_rows).prereqStandards)

\* the run has found A2 and A1 and packaged the two rows of A1 as one entry
\* with the components in row order, and A2, which has no row, has no entry;
\* for the rows in reverse order the entry lists the components in that order
PackagedWitness ==
    /\ prereq_pc = "packaged"
    /\ Column(standard_and_prereq_data.prerequisite_standards, "caseIdentifierUUID")
          = <<"A2", "A1">>
    /\ Column(prerequisite_learning_components, "caseIdentifierUUID") = <<"A1", "A1">>
    /\ Column(prerequisite_learning_components, "learningComponentDescription")
          = <<"d2", "d1">>
    /\ Len(full_standards_context.prereqStandards) = 1
    /\ full_standards_context.prereqStandards[1].statementCode = "5.NF.A.1"
    /\ Column(full_standards_context.prereqStandards[1].supportingLearningComponents,
              "description") = <<"d2", "d1">>
    /\ \E all_rows \in RowArguments :
          /\ Column(all_rows, "learningComponentDescription") = <<"d1", "d2">>
          /\ LET entries == package_context_data(standard_and_prereq_data.target_standard,
                                                 all_rows).prereqStandards
             IN  /\ Len(entries) = 1
                 /\ Column(entries[1].supportingLearningComponents, "description")
                       = <<"d1", "d2">>

\* two entries in the order of the first rows, which is not the order of the
\* standards file; for the rows twice over, where a row of A1 lies between
\* the rows of A2, there are two entries of two components in the same order
PackagedOrderWitness ==
    /\ prereq_pc = "packaged"
    /\ Column(prerequisite_learning_components, "caseIdentifierUUID") = <<"A2", "A1">>
    /\ Column(full_standards_context.prereqStandards, "statementCode")
          = <<"4.OA.B.4", "5.NF.A.1">>
    /\ \E all_rows \in RowArguments :
          /\ Column(all_rows, "caseIdentifierUUID") = <<"A2", "A1", "A2", "A1">>
          /\ LET entries == package_context_data(standard_and_prereq_data.target_standard,
                                                 all_rows).prereqStandards
             IN  /\ Column(entries, "statementCode") = <<"4.OA.B.4", "5.NF.A.1">>
                 /\ Len(entries[1].supportingLearningComponents) = 2

====
